---- MODULE Spec2Model ----
(***************************************************************************)
(* Model of perf-wizard's diagnostic engine:                               *)
(*   lib/AdvancedCodeAnalyzer.js   detectors and calculatePerformanceScore  *)
(*   UltimatePerformanceAnalyzer   analyzeFile, calculateOverallScore,      *)
(*                                 updateGlobalStats, analyzePattern,       *)
(*                                 generateUltimateSummary                  *)
(*                                                                         *)
(* Three specifications share the variables:                               *)
(*   SpecScore   the score model as a pure function of a finding list      *)
(*   SpecDetect  the detectors run over bounded syntax trees               *)
(*   Spec        the run of the command line tool over a list of files     *)
(*                                                                         *)
(* JavaScript's null/undefined is modelled as the empty sequence <<>> and  *)
(* a present value v as <<v>>.                                             *)
(***************************************************************************)
EXTENDS Integers, Sequences, FiniteSets, TLC

VARIABLES
  mode,          \* which harness drives the state: "score", "fallback", "detect", "run"
  results,       \* AdvancedCodeAnalyzer.analyzeCode's `results` object
  analysis,      \* UltimatePerformanceAnalyzer.analyzeFile's `analysis` object
  file,          \* the source file under analysis: extension, text, syntax tree
  config,        \* the configuration handed to UltimatePerformanceAnalyzer
  analyzer,      \* the UltimatePerformanceAnalyzer instance: results, totalScore, issueCount
  cli,           \* program.action's locals: entry point, results, summary, exit status
  remembered,    \* history: the score inputs and the score of one earlier report
  pc             \* position of the harness

vars == <<mode, results, analysis, file, config, analyzer, cli, remembered, pc>>

\* the variables of the command line run, idle in SpecScore and SpecDetect
runVars == <<config, analyzer, cli, remembered>>

(***************************************************************************)
(* Bounds                                                                  *)
(***************************************************************************)
MaxFindings == 8      \* findings (bottlenecks + leaks + heavy imports) of one scored input
MaxNodes == 5         \* syntax-tree nodes of one file below the Program node
MaxFiles == 2         \* files one pattern run hands to analyzeFile
MaxRuns == 2          \* runs of the command line tool, each with a fresh analyzer

Severity == {"high", "medium", "low"}

Null == <<>>
Some(v) == <<v>>
IsNull(o) == o = <<>>
Get(o) == o[1]

Max(a, b) == IF a >= b THEN a ELSE b
Min(a, b) == IF a <= b THEN a ELSE b

(***************************************************************************)
(* Configuration: ConfigManager.defaultConfig.thresholds                    *)
(***************************************************************************)
ThresholdFileSize == 100000
ThresholdFunctions == 20
ComplexityLimit == 15
DuplicateLimit == 5

(***************************************************************************)
(* Score model, AdvancedCodeAnalyzer.calculatePerformanceScore             *)
(***************************************************************************)
\* the if / else-if / else ladder of the bottleneck loop
BottleneckPenalty(severity) ==
  IF severity = "high" THEN 15
  ELSE IF severity = "medium" THEN 8
  ELSE 3

\* mutant: the leak loop reads the bottleneck table
LeakPenaltySharedTable(severity) == BottleneckPenalty(severity)

\* the if / else-if / else ladder of the memory-leak loop
LeakPenalty(severity) ==
  IF severity = "high" THEN 12
  ELSE IF severity = "medium" THEN 6
  ELSE 2

HeavyImportPenalty == 5

\* mutant: a finding that repeats the severity of the one before it is not charged
RECURSIVE DeductBottlenecksSkipRepeat(_, _)
DeductBottlenecksSkipRepeat(score, bottlenecks) ==
  IF bottlenecks = <<>> THEN score
  ELSE IF Len(bottlenecks) >= 2 /\ bottlenecks[1].severity = bottlenecks[2].severity
       THEN DeductBottlenecksSkipRepeat(score, Tail(bottlenecks))
       ELSE DeductBottlenecksSkipRepeat(score - BottleneckPenalty(Head(bottlenecks).severity),
                                        Tail(bottlenecks))

\* bottlenecks.forEach(b => score -= ...), left to right from `score`
RECURSIVE DeductBottlenecks(_, _)
DeductBottlenecks(score, bottlenecks) ==
  IF bottlenecks = <<>> THEN score
  ELSE DeductBottlenecks(score - BottleneckPenalty(Head(bottlenecks).severity),
                         Tail(bottlenecks))

\* results.memoryLeaks.forEach(leak => score -= ...)
RECURSIVE DeductLeaks(_, _)
DeductLeaks(score, leaks) ==
  IF leaks = <<>> THEN score
  ELSE DeductLeaks(score - LeakPenalty(Head(leaks).severity), Tail(leaks))

\* mutant: the final Math.max(0, Math.min(100, score)) is missing
calculatePerformanceScoreUnclamped(res) ==
  DeductLeaks(DeductBottlenecks(100, res.performance.bottlenecks), res.memoryLeaks)
    - Len(res.bundleImpact.heavyImports) * HeavyImportPenalty

calculatePerformanceScore(res) ==
  LET s1 == DeductBottlenecks(100, res.performance.bottlenecks)
      s2 == DeductLeaks(s1, res.memoryLeaks)
      s3 == s2 - Len(res.bundleImpact.heavyImports) * HeavyImportPenalty
  IN  Max(0, Min(100, s3))

(***************************************************************************)
(* UltimatePerformanceAnalyzer.calculateOverallScore                       *)
(***************************************************************************)
\* mutant: the score also draws on the total the analyzer has accumulated
calculateOverallScoreCarried(an) ==
  Max(0, Min(100, 100 - (analyzer.totalScore \div 10)
                      - (IF an.size > ThresholdFileSize THEN 10 ELSE 0)))

\* mutant: a value equal to its threshold is charged as well
calculateOverallScoreInclusive(an) ==
  IF ~IsNull(an.advanced) /\ ~IsNull(Get(an.advanced).performanceScore)
  THEN Get(Get(an.advanced).performanceScore)
  ELSE
    LET trad == Get(an.traditionalAnalysis)
        bySize == IF an.size >= ThresholdFileSize THEN 10 ELSE 0
        byMetrics ==
          IF IsNull(an.traditionalAnalysis) THEN 0
          ELSE (IF trad.complexity >= ComplexityLimit THEN 20 ELSE 0)
             + (IF trad.functions >= ThresholdFunctions THEN 10 ELSE 0)
             + (IF trad.duplicatedCode >= DuplicateLimit THEN 15 ELSE 0)
    IN  Max(0, Min(100, 100 - bySize - byMetrics))

\* mutant: the size rule is applied to the advanced score as well
calculateOverallScoreSizeAlways(an) ==
  LET base == IF ~IsNull(an.advanced) /\ ~IsNull(Get(an.advanced).performanceScore)
              THEN Get(Get(an.advanced).performanceScore) ELSE 100
  IN  Max(0, Min(100, IF an.size > ThresholdFileSize THEN base - 10 ELSE base))

calculateOverallScore(an) ==
  IF ~IsNull(an.advanced) /\ ~IsNull(Get(an.advanced).performanceScore)
  THEN Get(Get(an.advanced).performanceScore)
  ELSE
    LET s0 == 100
        s1 == IF an.size > ThresholdFileSize THEN s0 - 10 ELSE s0
        s2 == IF IsNull(an.traditionalAnalysis) THEN s1
              ELSE LET trad == Get(an.traditionalAnalysis)
                       a == IF trad.complexity > ComplexityLimit THEN s1 - 20 ELSE s1
                       b == IF trad.functions > ThresholdFunctions THEN a - 10 ELSE a
                       c == IF trad.duplicatedCode > DuplicateLimit THEN b - 15 ELSE b
                   IN  c
    IN  Max(0, Min(100, s2))

(***************************************************************************)
(* Syntax trees. A tree is the sequence of its nodes in depth-first        *)
(* (source) order; node 1 is the Program and every other node names its    *)
(* parent, an earlier node. A node's source line is its index. Only the    *)
(* node kinds the detectors look at are kept, with the fields they read:   *)
(*   type          the Babel node type                                     *)
(*   callee        of a CallExpression: "MemberExpression" or "Identifier" *)
(*   name          callee.property.name or callee.name                     *)
(*   calleeObject  the node is callee.object of its parent call            *)
(*   source        of an ImportDeclaration: source.value                   *)
(***************************************************************************)
Kind(t, c, nm, obj, src) ==
  [type |-> t, callee |-> c, name |-> nm, calleeObject |-> obj, source |-> src]

Statement(t) == Kind(t, "none", "", FALSE, "")
MemberCall(nm) == Kind("CallExpression", "MemberExpression", nm, FALSE, "")
PlainCall(nm) == Kind("CallExpression", "Identifier", nm, FALSE, "")
Import(src) == Kind("ImportDeclaration", "none", "", FALSE, src)

NodeOf(kind, p) ==
  [type |-> kind.type, callee |-> kind.callee, name |-> kind.name,
   calleeObject |-> kind.calleeObject, source |-> kind.source, parent |-> p]

ProgramOnly == <<NodeOf(Statement("Program"), 0)>>

NoFile == [ext |-> "", mentionsReact |-> FALSE, parses |-> FALSE, tree |-> <<>>, family |-> ""]

LoopTypes == {"ForStatement", "WhileStatement", "DoWhileStatement"}
FunctionTypes == {"FunctionDeclaration", "FunctionExpression"}

\* the proper ancestors of node n, nearest first
RECURSIVE AncestorChain(_, _)
AncestorChain(tree, n) ==
  IF tree[n].parent = 0 THEN <<>>
  ELSE <<tree[n].parent>> \o AncestorChain(tree, tree[n].parent)

Ancestors(tree, n) ==
  LET chain == AncestorChain(tree, n) IN {chain[i] : i \in 1..Len(chain)}

\* the nodes path.traverse / scope.traverse visit below n: its proper descendants
Descendants(tree, n) == {m \in 1..Len(tree) : n \in Ancestors(tree, m)}

Children(tree, n) == {m \in 1..Len(tree) : tree[m].parent = n}

(***************************************************************************)
(* Scopes, as @babel/traverse assigns path.scope: a node that is Scopable  *)
(* opens a scope, except a BlockStatement that is the body of a function;  *)
(* every other node shares its parent's scope. A function and its body     *)
(* block are one node here.                                                *)
(***************************************************************************)
ScopableTypes ==
  {"Program", "BlockStatement"} \cup LoopTypes \cup FunctionTypes

\* path.scope.block for the node n
ScopeBlock(tree, n) ==
  IF tree[n].type \in ScopableTypes THEN n
  ELSE LET chain == AncestorChain(tree, n)
           k == CHOOSE i \in 1..Len(chain) :
                  /\ tree[chain[i]].type \in ScopableTypes
                  /\ \A j \in 1..(i - 1) : tree[chain[j]].type \notin ScopableTypes
       IN  chain[k]

(***************************************************************************)
(* Visitor dispatch of @babel/traverse as the detectors use it.            *)
(*                                                                         *)
(* The visitors are written as an object literal; a key written twice      *)
(* keeps its last value. traverse(ast, visitors) is called with no state   *)
(* argument and Babel calls every visitor as fn.call(state, path, state),  *)
(* so inside a visitor `this` is that state. The visitors are method       *)
(* shorthands in class code (strict mode): `this.helper(...)` on an        *)
(* undefined `this` throws a TypeError, which the detector's try/catch     *)
(* turns into its empty result.                                            *)
(***************************************************************************)
\* mutant: the visitors run with `this` bound to the analyzer
VisitorThisBound == Some("AdvancedCodeAnalyzer")

\* the state argument of traverse(ast, visitors): absent
VisitorThis == Null

\* the value of a JavaScript object literal given as <<key, value>> pairs in
\* source order: a later pair with the same key replaces the earlier one
ObjectLiteral(pairs) ==
  [k \in {pairs[i][1] : i \in 1..Len(pairs)} |->
     LET last == CHOOSE i \in 1..Len(pairs) :
                   /\ pairs[i][1] = k
                   /\ \A j \in (i + 1)..Len(pairs) : pairs[j][1] # k
     IN  pairs[last][2]]

Threw == [threw |-> TRUE, out |-> <<>>]
Returned(items) == [threw |-> FALSE, out |-> items]

(***************************************************************************)
(* Helper methods of AdvancedCodeAnalyzer                                  *)
(***************************************************************************)
\* s.includes(sub)
Includes(s, sub) ==
  \E i \in 1..(Len(s) - Len(sub) + 1) : SubSeq(s, i, i + Len(sub) - 1) = sub

heavyLibs ==
  <<"lodash", "moment", "axios", "jquery", "bootstrap", "material-ui", "antd",
    "react-router-dom">>

isHeavyLibrary(source) ==
  \E i \in 1..Len(heavyLibs) : Includes(source, heavyLibs[i])

\* for (const [lib, v] of Object.entries(table)) if (source.includes(lib)) return v
FirstEntry(table, source, default) ==
  IF \E i \in 1..Len(table) : Includes(source, table[i][1])
  THEN LET k == CHOOSE i \in 1..Len(table) :
                  /\ Includes(source, table[i][1])
                  /\ \A j \in 1..(i - 1) : ~Includes(source, table[j][1])
       IN  table[k][2]
  ELSE default

sizes ==
  << <<"lodash", "70KB">>, <<"moment", "67KB">>, <<"jquery", "87KB">>,
     <<"bootstrap", "158KB">>, <<"material-ui", "300KB+">>, <<"antd", "500KB+">> >>

getLibrarySize(source) == FirstEntry(sizes, source, "Unknown")

alternatives ==
  << <<"lodash", "Use native ES6 methods or lodash-es for tree shaking">>,
     <<"moment", "Use date-fns or dayjs (2KB vs 67KB)">>,
     <<"jquery", "Use vanilla JavaScript or modern alternatives">>,
     <<"bootstrap", "Use Tailwind CSS or CSS Modules">>,
     <<"material-ui", "Use Mantine or Chakra UI (lighter alternatives)">>,
     <<"antd", "Use individual component imports">> >>

suggestAlternative(source) == FirstEntry(alternatives, source, "Consider lighter alternatives")

\* path.traverse over the loop's descendants; innerPath is never the loop itself
hasNestedLoop(tree, n) ==
  \E m \in Descendants(tree, n) : tree[m].type \in LoopTypes

chainMethods == {"map", "filter", "reduce", "forEach", "find", "some", "every"}

isArrayMethodChain(tree, n) ==
  /\ tree[n].callee = "MemberExpression"
  /\ tree[n].name \in chainMethods

\* the call that is callee.object of call n, if that object is a call
CalleeObjectCall(tree, n) ==
  {m \in Children(tree, n) : tree[m].type = "CallExpression" /\ tree[m].calleeObject}

RECURSIVE getChainLength(_, _)
getChainLength(tree, n) ==
  IF tree[n].callee # "MemberExpression" THEN 0
  ELSE IF CalleeObjectCall(tree, n) = {} THEN 1
       ELSE 1 + getChainLength(tree, CHOOSE m \in CalleeObjectCall(tree, n) : TRUE)

domMethods ==
  {"querySelector", "getElementById", "appendChild", "innerHTML", "createElement",
   "setAttribute"}

isDOMManipulation(tree, n) ==
  /\ tree[n].callee \in {"MemberExpression", "Identifier"}
  /\ tree[n].name \in domMethods

\* path.parent is the parent node; a node has no `parent` property, so the
\* loop `parent = parent.parent` ends after the first step
isInLoop(tree, n) ==
  /\ tree[n].parent # 0
  /\ tree[tree[n].parent].type \in LoopTypes

isEventListener(node) ==
  /\ node.callee = "MemberExpression"
  /\ node.name = "addEventListener"

timerMethods == {"setTimeout", "setInterval", "requestAnimationFrame"}

isTimer(node) ==
  /\ node.callee = "Identifier"
  /\ node.name \in timerMethods

\* scope.traverse(scope.block, ...): any removeEventListener member call below
\* the block of the call's scope
hasEventCleanup(tree, n) ==
  \E m \in Descendants(tree, ScopeBlock(tree, n)) :
     /\ tree[m].type = "CallExpression"
     /\ tree[m].callee = "MemberExpression"
     /\ tree[m].name = "removeEventListener"

timerCleanups == {"clearTimeout", "clearInterval", "cancelAnimationFrame"}

hasTimerCleanup(tree, n) ==
  \E m \in Descendants(tree, ScopeBlock(tree, n)) :
     /\ tree[m].type = "CallExpression"
     /\ tree[m].callee = "Identifier"
     /\ tree[m].name \in timerCleanups

isReactComponent(node) ==
  /\ node.type = "FunctionDeclaration"
  /\ node.name # ""
  /\ Includes("ABCDEFGHIJKLMNOPQRSTUVWXYZ", SubSeq(node.name, 1, 1))

isHook(node) ==
  /\ node.type = "CallExpression"
  /\ node.callee = "Identifier"
  /\ Len(node.name) >= 3 /\ SubSeq(node.name, 1, 3) = "use"

(***************************************************************************)
(* The visitors. Each returns what it pushed, or Threw.                    *)
(***************************************************************************)
Finding(t, sev, n) == [type |-> t, severity |-> sev, line |-> n]

\* detectBottlenecks, ForStatement(path)
NestedLoopVisitor(tree, n, self) ==
  IF IsNull(self) THEN Threw
  ELSE IF hasNestedLoop(tree, n)
       THEN Returned(<<Finding("nested-loop", "high", n)>>)
       ELSE Returned(<<>>)

\* detectBottlenecks, the first CallExpression(path)
ArrayChainVisitor(tree, n, self) ==
  IF IsNull(self) THEN Threw
  ELSE IF isArrayMethodChain(tree, n) /\ getChainLength(tree, n) > 3
       THEN Returned(<<[type |-> "array-chain", severity |-> "medium", line |-> n,
                        chainLength |-> getChainLength(tree, n)]>>)
       ELSE Returned(<<>>)

\* detectBottlenecks, the second CallExpression(path)
DomInLoopVisitor(tree, n, self) ==
  IF IsNull(self) THEN Threw
  ELSE IF isDOMManipulation(tree, n) /\ isInLoop(tree, n)
       THEN Returned(<<Finding("dom-in-loop", "high", n)>>)
       ELSE Returned(<<>>)

\* detectMemoryLeaks, the first CallExpression(path)
EventListenerVisitor(tree, n, self) ==
  IF IsNull(self) THEN Threw
  ELSE IF isEventListener(tree[n]) /\ ~hasEventCleanup(tree, n)
       THEN Returned(<<Finding("event-listener", "medium", n)>>)
       ELSE Returned(<<>>)

\* detectMemoryLeaks, the second CallExpression(path)
TimerVisitor(tree, n, self) ==
  IF IsNull(self) THEN Threw
  ELSE IF isTimer(tree[n]) /\ ~hasTimerCleanup(tree, n)
       THEN Returned(<<Finding("timer", "medium", n)>>)
       ELSE Returned(<<>>)

\* analyzeBundleImpact, ImportDeclaration(path): imports.push(...) comes before
\* the first use of `this`
ImportVisitor(tree, n, self) ==
  LET source == tree[n].source
      import == [list |-> "imports", source |-> source]
      heavy == [list |-> "heavyImports", library |-> source,
                estimatedSize |-> getLibrarySize(source),
                alternative |-> suggestAlternative(source)]
  IN  IF IsNull(self) THEN Threw
      ELSE IF isHeavyLibrary(source) THEN Returned(<<import, heavy>>)
           ELSE Returned(<<import>>)

\* analyzeReactComponent, FunctionDeclaration(path): checkInlineObjects,
\* checkExpensiveRender and checkMemoOpportunities are not methods of the class
ReactComponentVisitor(tree, n, self) ==
  IF IsNull(self) THEN Threw
  ELSE IF isReactComponent(tree[n]) THEN Threw ELSE Returned(<<>>)

\* analyzeReactComponent, CallExpression(path): analyzeHookUsage is not a method
HookVisitor(tree, n, self) ==
  IF IsNull(self) THEN Threw
  ELSE IF isHook(tree[n]) THEN Threw ELSE Returned(<<>>)

\* analyzeReactComponent, JSXElement(path): checkJSXOptimizations is not a method
JSXVisitor(tree, n, self) == Threw

RunVisitor(handler, tree, n, self) ==
  CASE handler = "nested-loop" -> NestedLoopVisitor(tree, n, self)
    [] handler = "array-chain" -> ArrayChainVisitor(tree, n, self)
    [] handler = "dom-in-loop" -> DomInLoopVisitor(tree, n, self)
    [] handler = "event-listener" -> EventListenerVisitor(tree, n, self)
    [] handler = "timer" -> TimerVisitor(tree, n, self)
    [] handler = "import" -> ImportVisitor(tree, n, self)
    [] handler = "react-component" -> ReactComponentVisitor(tree, n, self)
    [] handler = "hook" -> HookVisitor(tree, n, self)
    [] handler = "jsx" -> JSXVisitor(tree, n, self)

\* traverse(ast, visitors): the nodes in depth-first order from node n on; the
\* first visitor that throws ends the traversal
RECURSIVE TraverseFrom(_, _, _, _, _)
TraverseFrom(tree, visitors, self, n, acc) ==
  IF n > Len(tree) THEN Returned(acc)
  ELSE IF tree[n].type \in DOMAIN visitors
       THEN LET r == RunVisitor(visitors[tree[n].type], tree, n, self)
            IN  IF r.threw THEN Threw
                ELSE TraverseFrom(tree, visitors, self, n + 1, acc \o r.out)
       ELSE TraverseFrom(tree, visitors, self, n + 1, acc)

traverse(tree, visitors) == TraverseFrom(tree, visitors, VisitorThis, 1, <<>>)

(***************************************************************************)
(* The detectors                                                           *)
(***************************************************************************)
BottleneckVisitors ==
  ObjectLiteral(<< <<"ForStatement", "nested-loop">>,
                   <<"CallExpression", "array-chain">>,
                   <<"CallExpression", "dom-in-loop">> >>)

\* babel.parse throws on text that does not parse; the catch returns []
detectBottlenecks(code) ==
  IF ~code.parses THEN <<>>
  ELSE LET r == traverse(code.tree, BottleneckVisitors)
       IN  IF r.threw THEN <<>> ELSE r.out

MemoryLeakVisitors ==
  ObjectLiteral(<< <<"CallExpression", "event-listener">>,
                   <<"CallExpression", "timer">> >>)

\* mutant: every addEventListener member call is reported, whether or not its
\* scope holds a removeEventListener call
detectMemoryLeaksNoCleanupCheck(code) ==
  IF ~code.parses THEN <<>>
  ELSE LET tree == code.tree
           hits == SelectSeq([n \in 1..Len(tree) |-> n],
                             LAMBDA n : isEventListener(tree[n]))
       IN  [i \in 1..Len(hits) |-> Finding("event-listener", "medium", hits[i])]

detectMemoryLeaks(code) ==
  IF ~code.parses THEN <<>>
  ELSE LET r == traverse(code.tree, MemoryLeakVisitors)
       IN  IF r.threw THEN <<>> ELSE r.out

BundleVisitors == ObjectLiteral(<< <<"ImportDeclaration", "import">> >>)

InList(items, list) == SelectSeq(items, LAMBDA it : it.list = list)

\* the catch returns fresh empty arrays and the error message
analyzeBundleImpact(code) ==
  IF ~code.parses THEN [imports |-> <<>>, heavyImports |-> <<>>, error |-> TRUE]
  ELSE LET r == traverse(code.tree, BundleVisitors)
       IN  IF r.threw THEN [imports |-> <<>>, heavyImports |-> <<>>, error |-> TRUE]
           ELSE [imports |-> InList(r.out, "imports"),
                 heavyImports |-> InList(r.out, "heavyImports"),
                 error |-> FALSE]

ReactVisitors ==
  ObjectLiteral(<< <<"FunctionDeclaration", "react-component">>,
                   <<"CallExpression", "hook">>,
                   <<"JSXElement", "jsx">> >>)

analyzeReactComponent(code) ==
  IF ~code.parses THEN [issues |-> <<>>, recommendations |-> <<>>, error |-> TRUE]
  ELSE LET r == traverse(code.tree, ReactVisitors)
       IN  [issues |-> <<>>, recommendations |-> <<>>, error |-> r.threw]

(***************************************************************************)
(* AdvancedCodeAnalyzer.analyzeCode                                        *)
(***************************************************************************)
EmptyResultsOnFailure ==
  [performance |-> [react |-> Null, bottlenecks |-> <<>>],
   memoryLeaks |-> <<>>,
   bundleImpact |-> [imports |-> <<>>, heavyImports |-> <<>>, error |-> TRUE],
   performanceScore |-> Null]

\* mutant: the first detector that fails ends the analysis of the file
analyzeCodeFailFast(code) ==
  IF \/ ~code.parses
     \/ traverse(code.tree, BundleVisitors).threw
     \/ traverse(code.tree, BottleneckVisitors).threw
     \/ traverse(code.tree, MemoryLeakVisitors).threw
  THEN EmptyResultsOnFailure
  ELSE [performance |-> [react |-> Null, bottlenecks |-> detectBottlenecks(code)],
        memoryLeaks |-> detectMemoryLeaks(code),
        bundleImpact |-> analyzeBundleImpact(code),
        performanceScore |-> Some(100)]

\* results.performanceScore = this.calculatePerformanceScore(results)
WithPerformanceScore(r) ==
  [r EXCEPT !.performanceScore = Some(calculatePerformanceScore(r))]

analyzeCode(code) ==
  WithPerformanceScore(
    [performance |->
       [react |-> IF code.ext \in {".jsx", ".tsx"} \/ code.mentionsReact
                  THEN Some(analyzeReactComponent(code)) ELSE Null,
        bottlenecks |-> detectBottlenecks(code)],
     memoryLeaks |-> detectMemoryLeaks(code),
     bundleImpact |-> analyzeBundleImpact(code),
     performanceScore |-> Null])

(***************************************************************************)
(* UltimatePerformanceAnalyzer                                             *)
(***************************************************************************)
\* constructor: this.results = [], this.totalScore = 0, this.issueCount = {0, 0, 0}
NewAnalyzer ==
  [results |-> <<>>, totalScore |-> 0, issueCount |-> [high |-> 0, medium |-> 0, low |-> 0]]

NoCli ==
  [run |-> 0, entry |-> "", results |-> <<>>, summary |-> Null, exit |-> Null,
   failed |-> FALSE]

IdleRun ==
  /\ config = [performance |-> TRUE]
  /\ analyzer = NewAnalyzer
  /\ cli = NoCli
  /\ remembered = Null

exclude == <<"node_modules", "dist", "build", ".git", "coverage", ".nyc_output", "*.min.js">>

\* position of the last occurrence of the one-character string ch in s, or 0
LastIndexOf(s, ch) ==
  LET hits == {i \in 1..Len(s) : SubSeq(s, i, i) = ch}
  IN  IF hits = {} THEN 0 ELSE CHOOSE i \in hits : \A j \in hits : j <= i

\* path.basename(filePath)
basename(filePath) == SubSeq(filePath, LastIndexOf(filePath, "/") + 1, Len(filePath))

\* path.extname(filePath): from the last dot of the base name, unless the name
\* starts with that dot or has none
extname(filePath) ==
  LET base == basename(filePath)
      dot == LastIndexOf(base, ".")
  IN  IF dot <= 1 THEN "" ELSE SubSeq(base, dot, Len(base))

shouldExclude(filePath) ==
  \E i \in 1..Len(exclude) :
     \/ Includes(filePath, exclude[i])
     \/ (Len(basename(filePath)) >= 1 /\ SubSeq(basename(filePath), 1, 1) = ".")
     \/ Includes(filePath, "test")
     \/ Includes(filePath, "spec")

binaryExts == {".jpg", ".jpeg", ".png", ".gif", ".pdf", ".zip", ".tar", ".gz"}
isBinaryFile(ext) == ext \in binaryExts

scriptExts == {".js", ".ts", ".jsx", ".tsx", ".vue", ".svelte"}

MaxFileSize == 5000000

\* mutant: the metrics are computed for the first file of an analyzer only
getTraditionalAnalysisFirstOnly(content) ==
  IF content.empty \/ analyzer.totalScore > 0 THEN Null ELSE Some(content.metrics)

\* getTraditionalAnalysis(content): null for the empty string, else the counts
\* the regular expressions find in the text
getTraditionalAnalysis(content) ==
  IF content.empty THEN Null ELSE Some(content.metrics)

Suggestion(t, cat, sev, ln) == [type |-> t, category |-> cat, severity |-> sev, line |-> ln]

generateComprehensiveSuggestions(an) ==
  LET trad == Get(an.traditionalAnalysis)
      fromTrad ==
        IF IsNull(an.traditionalAnalysis) THEN <<>>
        ELSE (IF an.size > ThresholdFileSize
                THEN <<Suggestion("warning", "size", "high", Null)>> ELSE <<>>)
          \o (IF trad.functions > ThresholdFunctions
                THEN <<Suggestion("warning", "maintainability", "medium", Null)>> ELSE <<>>)
          \o (IF trad.complexity > ComplexityLimit
                THEN <<Suggestion("warning", "complexity", "high", Null)>> ELSE <<>>)
          \o (IF trad.duplicatedCode > DuplicateLimit
                THEN <<Suggestion("info", "duplication", "medium", Null)>> ELSE <<>>)
          \o (IF trad.todos > 0
                THEN <<Suggestion("info", "maintenance", "low", Null)>> ELSE <<>>)
      adv == Get(an.advanced)
      fromAdvanced ==
        IF IsNull(an.advanced) THEN <<>>
        ELSE [i \in 1..Len(adv.performance.bottlenecks) |->
                Suggestion("warning", "performance", adv.performance.bottlenecks[i].severity,
                           Some(adv.performance.bottlenecks[i].line))]
          \o [i \in 1..Len(adv.memoryLeaks) |->
                Suggestion("error", "memory", adv.memoryLeaks[i].severity,
                           Some(adv.memoryLeaks[i].line))]
          \o [i \in 1..Len(adv.bundleImpact.heavyImports) |->
                Suggestion("warning", "bundle", "medium", Null)]
          \o (IF IsNull(adv.performance.react) THEN <<>>
              ELSE [i \in 1..Len(Get(adv.performance.react).issues) |->
                      Suggestion("warning", "react", "medium", Null)]
                \o [i \in 1..Len(Get(adv.performance.react).recommendations) |->
                      Suggestion("info", "react-optimization", "low", Null)])
      suggestions == fromTrad \o fromAdvanced
  IN  IF suggestions = <<>>
      THEN <<Suggestion("success", "quality", "info", Null)>>
      ELSE suggestions

\* analysis.suggestions = this.generateComprehensiveSuggestions(analysis)
WithSuggestions(an) ==
  [file |-> an.file, size |-> an.size, advanced |-> an.advanced,
   traditionalAnalysis |-> an.traditionalAnalysis,
   suggestions |-> generateComprehensiveSuggestions(an)]

\* analysis.performanceScore = this.calculateOverallScore(analysis)
WithOverallScore(an) ==
  [file |-> an.file, size |-> an.size, advanced |-> an.advanced,
   traditionalAnalysis |-> an.traditionalAnalysis,
   suggestions |-> an.suggestions,
   performanceScore |-> calculateOverallScore(an)]

\* what analyzeFile hands to analyzeCode: the text it read and the file's name
CodeOf(f) ==
  [ext |-> extname(f.path), mentionsReact |-> f.text.mentionsReact,
   parses |-> f.text.parses, tree |-> f.text.tree]

\* content stays '' unless the extension is a script dialect
ContentOf(f) ==
  IF extname(f.path) \in scriptExts THEN f.text ELSE [f.text EXCEPT !.empty = TRUE]

\* the analysis object of analyzeFile, lines 107-139, or Null where it returns null
BuildAnalysis(f, cfg) ==
  IF shouldExclude(f.path) \/ ~f.exists THEN Null
  ELSE IF f.size > MaxFileSize \/ isBinaryFile(extname(f.path)) THEN Null
  ELSE IF extname(f.path) \in scriptExts /\ ~f.readable THEN Null
  ELSE Some(WithOverallScore(WithSuggestions(
         [file |-> f.path, size |-> f.size,
          advanced |-> IF extname(f.path) \in scriptExts /\ cfg.performance
                       THEN Some(analyzeCode(CodeOf(f))) ELSE Null,
          traditionalAnalysis |-> getTraditionalAnalysis(ContentOf(f))])))

CountSuggestions(suggestions, sev) ==
  Cardinality({i \in 1..Len(suggestions) : suggestions[i].severity = sev})

updateGlobalStats(self, an) ==
  [self EXCEPT
     !.totalScore = @ + an.performanceScore,
     !.issueCount = [high |-> @.high + CountSuggestions(an.suggestions, "high"),
                     medium |-> @.medium + CountSuggestions(an.suggestions, "medium"),
                     low |-> @.low + CountSuggestions(an.suggestions, "low")]]

\* mutant: the global statistics take the report in before its suggestions
\* are generated
ReturningUnfinished(self, an) ==
  IF IsNull(an) THEN [analysis |-> Null, self |-> self]
  ELSE [analysis |-> an,
        self |-> updateGlobalStats(self, [Get(an) EXCEPT !.suggestions = <<>>])]

\* the end of analyzeFile: the global statistics take the report in
Returning(self, an) ==
  IF IsNull(an) THEN [analysis |-> Null, self |-> self]
  ELSE [analysis |-> an, self |-> updateGlobalStats(self, Get(an))]

\* analyzeFile(filePath): the analysis it returns and the analyzer after it
analyzeFile(self, f, cfg) == Returning(self, BuildAnalysis(f, cfg))

\* mutant: the bands are compared with > instead of >=
GradeStrict(averageScore) ==
  IF averageScore > 90 THEN "A+"
  ELSE IF averageScore > 80 THEN "A"
  ELSE IF averageScore > 70 THEN "B"
  ELSE IF averageScore > 60 THEN "C"
  ELSE IF averageScore > 50 THEN "D"
  ELSE "F"

\* generateUltimateSummary, the grade ladder
Grade(averageScore) ==
  IF averageScore >= 90 THEN "A+"
  ELSE IF averageScore >= 80 THEN "A"
  ELSE IF averageScore >= 70 THEN "B"
  ELSE IF averageScore >= 60 THEN "C"
  ELSE IF averageScore >= 50 THEN "D"
  ELSE "F"

\* Math.round(a / b) for a >= 0, b > 0: halves round up
RoundDiv(a, b) == (2 * a + b) \div (2 * b)

\* the concatenation of the lists of a list
RECURSIVE Flatten(_)
Flatten(lists) == IF lists = <<>> THEN <<>> ELSE Head(lists) \o Flatten(Tail(lists))

\* slice(0, k)
Take(seq, k) == SubSeq(seq, 1, Min(k, Len(seq)))

TopIssueCount == 5

generateUltimateSummary(self) ==
  LET totalFiles == Len(self.results)
      averageScore == IF totalFiles > 0 THEN RoundDiv(self.totalScore, totalFiles) ELSE 0
      high == [i \in 1..totalFiles |->
                 SelectSeq(self.results[i].suggestions, LAMBDA sg : sg.severity = "high")]
  IN  [totalFiles |-> totalFiles,
       averageScore |-> averageScore,
       grade |-> Grade(averageScore),
       issues |-> self.issueCount,
       topIssues |-> Take(Flatten(high), TopIssueCount)]

(***************************************************************************)
(* SpecScore: the score model applied to inputs drawn from bounded sets.   *)
(* mode "score":    a results object is filled with findings of any        *)
(*                  severity, in any order, and scored (analyzeCode line   *)
(*                  399, then analyzeFile line 137).                       *)
(* mode "fallback": analysis.advanced is null and the size and the         *)
(*                  traditional metrics are drawn around the thresholds.   *)
(***************************************************************************)
EmptyResults ==
  [performance |-> [react |-> Null, bottlenecks |-> <<>>],
   memoryLeaks |-> <<>>,
   bundleImpact |-> [imports |-> <<>>, heavyImports |-> <<>>, error |-> FALSE],
   performanceScore |-> Null]

NoAnalysis ==
  [advanced |-> Null, size |-> 0, traditionalAnalysis |-> Null, performanceScore |-> Null]

FindingCount(res) ==
  Len(res.performance.bottlenecks) + Len(res.memoryLeaks) + Len(res.bundleImpact.heavyImports)

\* sizes, complexities, function counts and duplicate counts on both sides of
\* each threshold of calculateOverallScore
SampleSizes == {0, ThresholdFileSize, ThresholdFileSize + 1}
SampleComplexity == {1, ComplexityLimit, ComplexityLimit + 1}
SampleFunctions == {0, ThresholdFunctions, ThresholdFunctions + 1}
SampleDuplicates == {0, DuplicateLimit, DuplicateLimit + 1}

SampleTraditional ==
  {Null} \cup
  {Some([complexity |-> c, functions |-> f, duplicatedCode |-> d]) :
      c \in SampleComplexity, f \in SampleFunctions, d \in SampleDuplicates}

InitScore ==
  /\ mode \in {"score", "fallback"}
  /\ file = NoFile
  /\ IdleRun
  /\ results = EmptyResults
  /\ pc = "input"
  /\ IF mode = "score"
     THEN analysis = NoAnalysis
     ELSE analysis \in {[NoAnalysis EXCEPT !.size = sz, !.traditionalAnalysis = tr] :
                           sz \in SampleSizes, tr \in SampleTraditional}

\* a detector pushes one bottleneck finding
PushBottleneck(sev) ==
  /\ mode = "score"
  /\ FindingCount(results) < MaxFindings
  /\ results' = [results EXCEPT !.performance.bottlenecks = Append(@, [severity |-> sev]),
                                !.performanceScore = Null]
  /\ analysis' = NoAnalysis
  /\ pc' = "input"
  /\ UNCHANGED <<mode, file, runVars>>

\* a detector pushes one leak finding
PushLeak(sev) ==
  /\ mode = "score"
  /\ FindingCount(results) < MaxFindings
  /\ results' = [results EXCEPT !.memoryLeaks = Append(@, [severity |-> sev]),
                                !.performanceScore = Null]
  /\ analysis' = NoAnalysis
  /\ pc' = "input"
  /\ UNCHANGED <<mode, file, runVars>>

\* the bundle detector pushes one heavy import
PushHeavyImport ==
  /\ mode = "score"
  /\ FindingCount(results) < MaxFindings
  /\ results' = [results EXCEPT !.bundleImpact.heavyImports = Append(@, [library |-> "moment"]),
                                !.performanceScore = Null]
  /\ analysis' = NoAnalysis
  /\ pc' = "input"
  /\ UNCHANGED <<mode, file, runVars>>

\* analyzeCode line 399: results.performanceScore = this.calculatePerformanceScore(results)
ScoreAdvanced ==
  /\ mode = "score"
  /\ pc = "input"
  /\ results' = [results EXCEPT !.performanceScore = Some(calculatePerformanceScore(results))]
  /\ pc' = "advanced"
  /\ UNCHANGED <<mode, analysis, file, runVars>>

\* analyzeFile lines 124-137 with the advanced result attached
ScoreOverallAdvanced ==
  /\ mode = "score"
  /\ pc = "advanced"
  /\ LET an == [NoAnalysis EXCEPT !.advanced = Some(results)]
     IN  analysis' = [an EXCEPT !.performanceScore = Some(calculateOverallScore(an))]
  /\ pc' = "scored"
  /\ UNCHANGED <<mode, results, file, runVars>>

\* analyzeFile line 137 when analysis.advanced is null
ScoreOverallFallback ==
  /\ mode = "fallback"
  /\ pc = "input"
  /\ analysis' = [analysis EXCEPT !.performanceScore = Some(calculateOverallScore(analysis))]
  /\ pc' = "scored"
  /\ UNCHANGED <<mode, results, file, runVars>>

NextScore ==
  \/ \E sev \in Severity : PushBottleneck(sev)
  \/ \E sev \in Severity : PushLeak(sev)
  \/ PushHeavyImport
  \/ ScoreAdvanced
  \/ ScoreOverallAdvanced
  \/ ScoreOverallFallback

SpecScore == InitScore /\ [][NextScore]_vars

(***************************************************************************)
(* Claims about the score model (checked under SpecScore)                  *)
(***************************************************************************)
CountSeverity(findings, sev) ==
  Cardinality({i \in 1..Len(findings) : findings[i].severity = sev})

\* the penalty of a finding multiset, from the counts alone
PenaltyOfCounts(res) ==
    15 * CountSeverity(res.performance.bottlenecks, "high")
  + 8 * CountSeverity(res.performance.bottlenecks, "medium")
  + 3 * CountSeverity(res.performance.bottlenecks, "low")
  + 12 * CountSeverity(res.memoryLeaks, "high")
  + 6 * CountSeverity(res.memoryLeaks, "medium")
  + 2 * CountSeverity(res.memoryLeaks, "low")
  + 5 * Len(res.bundleImpact.heavyImports)

AdvancedScored == mode = "score" /\ ~IsNull(results.performanceScore)
OverallScored == ~IsNull(analysis.performanceScore)

\* C1: every score calculatePerformanceScore stores in results.performanceScore and
\* every score calculateOverallScore stores in analysis.performanceScore is an
\* integer between 0 and 100, whatever the findings, the size and the metrics.
C1_ScoreBounds ==
  /\ AdvancedScored => Get(results.performanceScore) \in 0..100
  /\ OverallScored => Get(analysis.performanceScore) \in 0..100

\* C1 witness: an input whose penalties exceed 100 has been scored by both functions
C1_Witness ==
  /\ mode = "score" /\ pc = "scored"
  /\ PenaltyOfCounts(results) > 100
  /\ Get(analysis.performanceScore) = 0

\* C2: calculatePerformanceScore is clamp(100 - P, 0, 100) with P built from the
\* bottleneck table 15/8/3, the leak table 12/6/2 and 5 per heavy import.
C2_ScoreIsClampedPenalty ==
  AdvancedScored =>
    Get(results.performanceScore) = Max(0, Min(100, 100 - PenaltyOfCounts(results)))

\* C2 witness: a scored input with a leak and a bottleneck of the same severity and
\* a heavy import, so that the three tables all contribute
C2_Witness ==
  /\ AdvancedScored
  /\ \E sev \in Severity :
       /\ CountSeverity(results.performance.bottlenecks, sev) > 0
       /\ CountSeverity(results.memoryLeaks, sev) > 0
  /\ Len(results.bundleImpact.heavyImports) > 0
  /\ Get(results.performanceScore) > 0

\* the list with the elements at positions i and j exchanged
Swap(findings, i, j) ==
  [k \in 1..Len(findings) |->
     IF k = i THEN findings[j] ELSE IF k = j THEN findings[i] ELSE findings[k]]

\* the list in the order high, medium, low: two lists are permutations of each
\* other exactly when they have the same canonical order
Canonical(findings) ==
  [k \in 1..Len(findings) |->
     [severity |->
        IF k <= CountSeverity(findings, "high") THEN "high"
        ELSE IF k <= CountSeverity(findings, "high") + CountSeverity(findings, "medium")
             THEN "medium" ELSE "low"]]

\* C3: the score does not depend on the order of the findings. Every exchange of
\* two neighbouring bottlenecks or leaks (these exchanges generate all the
\* permutations, and every list within the bound is scored in some state), and
\* the canonical reordering of both lists, leave calculatePerformanceScore's
\* result unchanged.
C3_OrderInvariant ==
  (mode = "score" /\ pc = "advanced") =>
    LET b == results.performance.bottlenecks
        l == results.memoryLeaks
        s == Get(results.performanceScore)
    IN  /\ \A i \in 1..(Len(b) - 1) :
             calculatePerformanceScore(
               [results EXCEPT !.performance.bottlenecks = Swap(b, i, i + 1)]) = s
        /\ \A i \in 1..(Len(l) - 1) :
             calculatePerformanceScore(
               [results EXCEPT !.memoryLeaks = Swap(l, i, i + 1)]) = s
        /\ calculatePerformanceScore(
             [results EXCEPT !.performance.bottlenecks = Canonical(b),
                             !.memoryLeaks = Canonical(l)]) = s

\* C3 witness: a scored list that is not in canonical order and whose running
\* total passes below 0 before the clamp
C3_Witness ==
  /\ AdvancedScored
  /\ results.performance.bottlenecks # Canonical(results.performance.bottlenecks)
  /\ PenaltyOfCounts(results) > 100

(***************************************************************************)
(* SpecDetect: analyzeCode over the syntax trees of at most MaxNodes nodes *)
(* below the Program. The parser's output is built node by node in source  *)
(* order; analyzeCode may run on every tree so built, and on a text that   *)
(* does not parse.                                                         *)
(***************************************************************************)
StatementTypes == LoopTypes \cup {"FunctionDeclaration", "BlockStatement", "ExpressionStatement"}

StructureKinds == {Statement(t) : t \in StatementTypes \cup {"FunctionExpression"}}

ListenerKinds ==
  {MemberCall("addEventListener"), MemberCall("removeEventListener"),
   PlainCall("removeEventListener")}

ImportKinds == {Import("moment"), Import("left-pad"), Import("axios"), Import("lodash/debounce")}

\* a call that is callee.object of the call above it: a link of a call chain
ChainLink(callee, nm) == Kind("CallExpression", callee, nm, TRUE, "")

ChainKinds ==
  {MemberCall("map"), ChainLink("MemberExpression", "filter"), ChainLink("Identifier", "load")}

DomKinds == {MemberCall("appendChild"), PlainCall("querySelector"), MemberCall("push")}

ComponentKinds == {PlainCall("useState")}

TimerKinds ==
  {PlainCall("setTimeout"), PlainCall("requestAnimationFrame"), PlainCall("clearInterval"),
   MemberCall("clearTimeout")}

\* The trees are drawn family by family, a family being the node kinds one
\* detector looks at together with the statements that matter around them.
Families == {"loops", "listeners", "imports", "chains", "dom", "components", "timers"}

FamilyKinds(family) ==
  CASE family = "loops" -> {Statement(t) : t \in LoopTypes \cup {"BlockStatement"}}
    [] family = "listeners" ->
         ListenerKinds \cup
         {Statement(t) : t \in {"FunctionDeclaration", "FunctionExpression",
                                "BlockStatement", "ExpressionStatement"}}
    [] family = "imports" -> ImportKinds \cup {Statement("ExpressionStatement")}
    [] family = "chains" -> ChainKinds \cup {Statement("ExpressionStatement")}
    [] family = "dom" ->
         DomKinds \cup
         {Statement(t) : t \in {"ForStatement", "WhileStatement", "ExpressionStatement"}}
    [] family = "components" ->
         ComponentKinds \cup
         {Statement(t) : t \in {"FunctionDeclaration", "ExpressionStatement"}}
    [] family = "timers" ->
         TimerKinds \cup
         {Statement(t) : t \in {"FunctionDeclaration", "ExpressionStatement"}}

NodeKinds ==
  StructureKinds \cup ListenerKinds \cup ImportKinds \cup ChainKinds \cup DomKinds
    \cup ComponentKinds \cup TimerKinds

\* the types a node of type t may have as its parent in a parsed module
ParentTypes(t) ==
  CASE t = "ImportDeclaration" -> {"Program"}
    [] t = "FunctionDeclaration" -> {"Program", "BlockStatement"} \cup FunctionTypes
    [] t = "FunctionExpression" -> {"CallExpression"}
    [] t = "CallExpression" -> {"ExpressionStatement", "CallExpression"} \cup LoopTypes
    [] OTHER -> {"Program", "BlockStatement"} \cup LoopTypes \cup FunctionTypes

\* what the grammar allows below parent p once the tree holds its present nodes
RoomBelow(tree, p, kind) ==
  LET kids == Children(tree, p)
      calls == {m \in kids : tree[m].type = "CallExpression"}
      stmts == kids \ calls
      pt == tree[p].type
  IN  CASE pt = "ExpressionStatement" -> kids = {}
        \* test before body
        [] pt \in {"ForStatement", "WhileStatement"} ->
             IF kind.type = "CallExpression" THEN kids = {} ELSE stmts = {}
        \* body before test
        [] pt = "DoWhileStatement" ->
             IF kind.type = "CallExpression" THEN calls = {} ELSE kids = {}
        [] OTHER -> TRUE

\* callee.object comes first in a call, and only a member call has one
IsCalleeObject(tree, kind, p) ==
  /\ tree[p].type = "CallExpression"
  /\ tree[p].callee = "MemberExpression"
  /\ Children(tree, p) = {}

CanAppend(tree, kind, p) ==
  /\ Len(tree) - 1 < MaxNodes
  /\ p \in 1..Len(tree)
  /\ p \in {Len(tree)} \cup Ancestors(tree, Len(tree))
  /\ tree[p].type \in ParentTypes(kind.type)
  /\ RoomBelow(tree, p, kind)
  /\ kind.calleeObject => IsCalleeObject(tree, kind, p)

InitDetect ==
  /\ mode = "detect"
  /\ \E ok \in BOOLEAN, fam \in Families :
       file = [ext |-> ".js", mentionsReact |-> (fam = "components"), parses |-> ok,
               tree |-> IF ok THEN ProgramOnly ELSE <<>>, family |-> fam]
  /\ results = EmptyResults
  /\ analysis = NoAnalysis
  /\ IdleRun
  /\ pc = "parsing"

\* the parser emits the next node of the file, in source order
ParseNode(kind, p) ==
  /\ mode = "detect"
  /\ pc = "parsing"
  /\ file.parses
  /\ kind \in FamilyKinds(file.family)
  /\ CanAppend(file.tree, kind, p)
  /\ file' = [file EXCEPT !.tree = Append(@, NodeOf(kind, p))]
  /\ UNCHANGED <<mode, results, analysis, pc, runVars>>

\* AdvancedCodeAnalyzer.analyzeCode(code, filePath)
AnalyzeCode ==
  /\ mode = "detect"
  /\ pc = "parsing"
  /\ results' = analyzeCode(file)
  /\ pc' = "analyzed"
  /\ UNCHANGED <<mode, analysis, file, runVars>>

NextDetect ==
  \/ \E kind \in NodeKinds, p \in 1..(MaxNodes + 1) : ParseNode(kind, p)
  \/ AnalyzeCode

SpecDetect == InitDetect /\ [][NextDetect]_vars

(***************************************************************************)
(* Claims about the detectors (checked under SpecDetect)                   *)
(***************************************************************************)
Analyzed == mode = "detect" /\ pc = "analyzed" /\ file.parses

LoopNodes(tree) == {n \in 1..Len(tree) : tree[n].type \in LoopTypes}

\* the loops of the tree are three, each inside the one before
IsTripleNest(tree) ==
  /\ Cardinality(LoopNodes(tree)) = 3
  /\ \A a, b \in LoopNodes(tree) : a < b => a \in Ancestors(tree, b)

OutermostLoop(tree) == CHOOSE a \in LoopNodes(tree) : \A b \in LoopNodes(tree) : a <= b

OfType(findings, t) == SelectSeq(findings, LAMBDA f : f.type = t)

\* C6: for a loop nest of depth three the bottleneck detector emits exactly one
\* nested-loop finding, and it carries the line of the outermost loop.
C6_TripleNestOneFinding ==
  (Analyzed /\ IsTripleNest(file.tree)) =>
    LET found == OfType(results.performance.bottlenecks, "nested-loop")
    IN  /\ Len(found) = 1
        /\ found[1].line = OutermostLoop(file.tree)

\* a call named nm, member or plain, below the block of the scope of call n
NamedCallInScope(tree, n, nm) ==
  \E m \in Descendants(tree, ScopeBlock(tree, n)) :
     tree[m].type = "CallExpression" /\ tree[m].name = nm

LeaksAt(findings, t, n) == SelectSeq(findings, LAMBDA f : f.type = t /\ f.line = n)

\* C7: an addEventListener member call whose scope holds no call named
\* removeEventListener gets exactly one event-listener finding, of severity medium.
C7_ListenerWithoutCleanupReported ==
  Analyzed =>
    \A n \in 1..Len(file.tree) :
      (isEventListener(file.tree[n]) /\ ~NamedCallInScope(file.tree, n, "removeEventListener"))
        => LET found == LeaksAt(results.memoryLeaks, "event-listener", n)
           IN  Len(found) = 1 /\ found[1].severity = "medium"

\* C8: an addEventListener member call whose scope block holds a
\* removeEventListener member call gets no event-listener finding.
C8_ListenerWithCleanupSilent ==
  Analyzed =>
    \A n \in 1..Len(file.tree) :
      (isEventListener(file.tree[n]) /\ hasEventCleanup(file.tree, n))
        => LeaksAt(results.memoryLeaks, "event-listener", n) = <<>>

\* C8 witness: a file with an addEventListener call and a removeEventListener
\* member call in its scope has been analysed
C8_Witness ==
  /\ Analyzed
  /\ \E n \in 1..Len(file.tree) :
       isEventListener(file.tree[n]) /\ hasEventCleanup(file.tree, n)

ImportNodes(tree) == {n \in 1..Len(tree) : tree[n].type = "ImportDeclaration"}

\* C9: a file whose one import has a source containing "moment" gets exactly one
\* heavy-import entry, for that source, suggesting date-fns or dayjs; a file
\* none of whose imports is in the heavy list gets no entry and keeps the score
\* its bottlenecks and leaks leave it.
C9_HeavyImportMoment ==
  Analyzed =>
    LET tree == file.tree
        heavy == results.bundleImpact.heavyImports
    IN  /\ (\E n \in ImportNodes(tree) :
              /\ ImportNodes(tree) = {n}
              /\ Includes(tree[n].source, "moment"))
            => /\ Len(heavy) = 1
               /\ heavy[1].library = tree[CHOOSE n \in ImportNodes(tree) : TRUE].source
               /\ \/ Includes(heavy[1].alternative, "date-fns")
                  \/ Includes(heavy[1].alternative, "dayjs")
        /\ (\A n \in ImportNodes(tree) : ~isHeavyLibrary(tree[n].source))
            => /\ heavy = <<>>
               /\ results.performanceScore =
                    Some(calculatePerformanceScore(
                           [results EXCEPT !.bundleImpact.heavyImports = <<>>]))

(***************************************************************************)
(* Spec: runs of the command line tool (program.action) over files drawn   *)
(* from SampleFiles. A file is its path, its size, whether it exists and   *)
(* can be read, and its text: whether the text is empty, whether it        *)
(* parses, its syntax tree, whether it mentions React, and the counts the  *)
(* regular expressions of getTraditionalAnalysis find in it.               *)
(***************************************************************************)
Metrics(fn, cx, dup, td) ==
  [lines |-> 40, chars |-> 1200, functions |-> fn, loops |-> 0, imports |-> 0,
   complexity |-> cx, todos |-> td, duplicatedCode |-> dup]

Text(tree, metrics) ==
  [empty |-> FALSE, parses |-> TRUE, tree |-> tree, mentionsReact |-> FALSE,
   metrics |-> metrics]

Under(tree, kind, p) == Append(tree, NodeOf(kind, p))

TripleForTree ==
  Under(Under(Under(ProgramOnly, Statement("ForStatement"), 1),
              Statement("ForStatement"), 2), Statement("ForStatement"), 3)

ListenerLeakTree ==
  Under(Under(ProgramOnly, Statement("ExpressionStatement"), 1),
        MemberCall("addEventListener"), 2)

MomentTree == Under(ProgramOnly, Import("moment"), 1)

CleanText == Text(ProgramOnly, Metrics(1, 1, 0, 0))
EmptyText == [CleanText EXCEPT !.empty = TRUE]
BrokenText(metrics) == [Text(<<>>, metrics) EXCEPT !.parses = FALSE]

HeavyMetrics == Metrics(ThresholdFunctions + 1, ComplexityLimit + 1, DuplicateLimit + 1, 1)

SampleTexts ==
  {CleanText, EmptyText,
   Text(TripleForTree, Metrics(1, ComplexityLimit + 1, 0, 0)),
   Text(ListenerLeakTree, Metrics(1, 1, 0, 0)),
   Text(MomentTree, Metrics(1, 1, 0, 1)),
   Text(ProgramOnly, HeavyMetrics)}

\* binary: the file's bytes are not text, whatever its name says
SourceFile(path, size, text) ==
  [path |-> path, size |-> size, exists |-> TRUE, readable |-> TRUE, binary |-> FALSE,
   text |-> text]

\* the one path whose text does not parse
BrokenPath == "src/broken.js"

SampleFiles ==
  {SourceFile("src/app.js", 1200, t) : t \in SampleTexts}
  \cup {SourceFile("src/app.js", ThresholdFileSize + 1, Text(ProgramOnly, HeavyMetrics))}
  \cup {SourceFile(BrokenPath, 1200, BrokenText(Metrics(1, ComplexityLimit + 1, 0, 0))),
        SourceFile("src/view.tsx", 1200, [CleanText EXCEPT !.mentionsReact = TRUE]),
        [SourceFile("styles/locked.css", ThresholdFileSize + 1, CleanText)
           EXCEPT !.readable = FALSE],
        [SourceFile("img/logo.png", 1200, CleanText) EXCEPT !.binary = TRUE],
        [SourceFile("img/favicon.ico", 1200, CleanText) EXCEPT !.binary = TRUE],
        SourceFile("src/app.test.js", 1200, CleanText),
        SourceFile("dist/bundle.js", 1200, CleanText),
        SourceFile("src/big.js", MaxFileSize + 1, CleanText),
        [SourceFile("src/locked.js", 1200, CleanText) EXCEPT !.readable = FALSE],
        [SourceFile("src/missing.js", 0, CleanText) EXCEPT !.exists = FALSE]}

\* the history keeps one report of the first run, as it was returned
Remember(an) ==
  IF IsNull(an) \/ ~IsNull(remembered) \/ cli.run > 1 THEN {remembered}
  ELSE {Null, an}

ThresholdPerformanceScore == 80

\* the settings the model varies: analysis.performance on or off
Configs == {[performance |-> b] : b \in BOOLEAN}

Init ==
  /\ mode = "run"
  /\ results = EmptyResults
  /\ analysis = NoAnalysis
  /\ file = NoFile
  /\ config \in Configs
  /\ analyzer = NewAnalyzer
  /\ cli \in {[NoCli EXCEPT !.run = 1, !.entry = e] : e \in {"file", "pattern"}}
  /\ remembered = Null
  /\ pc = "analyze"

\* if (analysis) results.push(analysis)
Pushed(list, an) == IF IsNull(an) THEN list ELSE Append(list, Get(an))

\* --file: const analysis = await analyzer.analyzeFile(options.file);
\*         if (analysis) results.push(analysis)
SingleFileAnalyzed(r) ==
  /\ analyzer' = r.self
  /\ cli' = [cli EXCEPT !.results = Pushed(@, r.analysis)]
  /\ remembered' \in Remember(r.analysis)

AnalyzeSingleFile(f) ==
  /\ mode = "run" /\ pc = "analyze" /\ cli.entry = "file"
  /\ SingleFileAnalyzed(analyzeFile(analyzer, f, config))
  /\ pc' = "collected"
  /\ UNCHANGED <<mode, results, analysis, file, config>>

\* analyzePattern: results.push(analysis); this.results.push(analysis)
PatternFileAnalyzed(r) ==
  /\ analyzer' = [r.self EXCEPT !.results = Pushed(@, r.analysis)]
  /\ cli' = [cli EXCEPT !.results = Pushed(@, r.analysis)]
  /\ remembered' \in Remember(r.analysis)

\* analyzePattern, one turn of the loop over the files glob found
AnalyzePatternFile(f) ==
  /\ mode = "run" /\ pc = "analyze" /\ cli.entry = "pattern"
  /\ Len(cli.results) < MaxFiles
  /\ PatternFileAnalyzed(analyzeFile(analyzer, f, config))
  /\ UNCHANGED <<mode, results, analysis, file, config, pc>>

\* analyzePattern returns its results
PatternDone ==
  /\ mode = "run" /\ pc = "analyze" /\ cli.entry = "pattern"
  /\ pc' = "collected"
  /\ UNCHANGED <<mode, results, analysis, file, runVars>>

\* program.action after the analysis: nothing to report, or the summary, the
\* output and the --ci exit status
Report(ci) ==
  /\ mode = "run" /\ pc = "collected"
  /\ IF Len(cli.results) = 0
     THEN cli' = [cli EXCEPT !.exit = Some(0)]
     ELSE LET summary == generateUltimateSummary(analyzer)
          IN  cli' = [cli EXCEPT
                        !.summary = Some(summary),
                        !.exit = IF ci /\ summary.averageScore < ThresholdPerformanceScore
                                 THEN Some(1) ELSE Some(0)]
  /\ pc' = "done"
  /\ UNCHANGED <<mode, results, analysis, file, config, analyzer, remembered>>

\* the try block of program.action throws (glob.sync or fs.statSync fails, a
\* formatter throws): the catch reports it and calls process.exit(1); the
\* process is gone, and with it the analyzer and what it had collected
AnalysisFails ==
  /\ mode = "run" /\ pc \in {"analyze", "collected"}
  /\ cli' = [NoCli EXCEPT !.run = cli.run, !.entry = cli.entry, !.failed = TRUE,
                          !.exit = Some(1)]
  /\ analyzer' = NewAnalyzer
  /\ pc' = "done"
  /\ UNCHANGED <<mode, results, analysis, file, config, remembered>>

\* the tool is started again with the same settings: a new process, a new
\* analyzer
NewRun ==
  /\ mode = "run" /\ pc = "done"
  /\ cli.run < MaxRuns
  /\ config' = config
  /\ analyzer' = NewAnalyzer
  /\ cli' \in {[NoCli EXCEPT !.run = cli.run + 1, !.entry = e] : e \in {"file", "pattern"}}
  /\ pc' = "analyze"
  /\ UNCHANGED <<mode, results, analysis, file, remembered>>

Next ==
  \/ \E f \in SampleFiles : AnalyzeSingleFile(f)
  \/ \E f \in SampleFiles : AnalyzePatternFile(f)
  \/ PatternDone
  \/ \E ci \in BOOLEAN : Report(ci)
  \/ AnalysisFails
  \/ NewRun

Spec == Init /\ [][Next]_vars

(***************************************************************************)
(* Claims checked on the runs of the tool                                  *)
(***************************************************************************)
\* what the score model reads of a report
ScoreInput(an) ==
  [findings |-> IF IsNull(an.advanced) THEN Null
                ELSE Some([bottlenecks |-> Get(an.advanced).performance.bottlenecks,
                           memoryLeaks |-> Get(an.advanced).memoryLeaks,
                           heavyImports |-> Get(an.advanced).bundleImpact.heavyImports]),
   size |-> an.size,
   traditionalAnalysis |-> an.traditionalAnalysis]

\* the score model run again, now, on what a report recorded
Rescore(an) ==
  LET adv == Get(an.advanced)
      again == IF IsNull(an.advanced) THEN Null
               ELSE Some([adv EXCEPT !.performanceScore = Some(calculatePerformanceScore(adv))])
  IN  calculateOverallScore([an EXCEPT !.advanced = again])

\* the reports at hand: those of this run and the one kept from the first run
Recorded ==
  {cli.results[i] : i \in 1..Len(cli.results)}
    \cup (IF IsNull(remembered) THEN {} ELSE {Get(remembered)})

\* C4: the score model is deterministic and keeps no hidden state: scoring the
\* findings and traditional metrics of a report again, later on the same
\* analyzer, after other files, or on the analyzer of a later run, gives the
\* score the report carries, and two reports with the same findings and
\* metrics carry the same score.
C4_ScoreDeterministic ==
  mode = "run" =>
    /\ \A r \in Recorded : Rescore(r) = r.performanceScore
    /\ \A r1, r2 \in Recorded :
         ScoreInput(r1) = ScoreInput(r2) => r1.performanceScore = r2.performanceScore

\* a second run, on its fresh analyzer, has scored another file and then one
\* with the findings and metrics of the report kept from the first run
C4_Witness ==
  /\ mode = "run" /\ cli.run = 2 /\ ~IsNull(remembered)
  /\ Len(cli.results) = 2
  /\ analyzer.totalScore > 0
  /\ ScoreInput(cli.results[1]) # ScoreInput(Get(remembered))
  /\ ScoreInput(cli.results[2]) = ScoreInput(Get(remembered))
  /\ IsNull(cli.results[2].advanced)

GradeBands ==
  {[grade |-> "A+", from |-> 90, to |-> 100], [grade |-> "A", from |-> 80, to |-> 89],
   [grade |-> "B", from |-> 70, to |-> 79], [grade |-> "C", from |-> 60, to |-> 69],
   [grade |-> "D", from |-> 50, to |-> 59], [grade |-> "F", from |-> 0, to |-> 49]}

InBand(grade, average) ==
  \A band \in GradeBands :
     (grade = band.grade) <=> (band.from <= average /\ average <= band.to)

\* C5: the grade of a summary is the band of its rounded average score, and
\* the ladder gives every average in 0..100 the grade of its band and no other:
\* 90 and up A+, 80..89 A, 70..79 B, 60..69 C, 50..59 D, below 50 F.
C5_GradeByBands ==
  /\ (mode = "run" /\ pc = "analyze" /\ cli.results = <<>>) =>
        \A average \in 0..100 : InBand(Grade(average), average)
  /\ (mode = "run" /\ ~IsNull(cli.summary)) =>
        /\ Get(cli.summary).averageScore \in 0..100
        /\ InBand(Get(cli.summary).grade, Get(cli.summary).averageScore)

\* a summary over two files whose average falls on the lower edge of a band
C5_Witness ==
  /\ mode = "run" /\ ~IsNull(cli.summary)
  /\ Get(cli.summary).totalFiles = 2
  /\ Get(cli.summary).averageScore = 50
  /\ Get(cli.summary).grade = "D"

\* C10: the report of a script file whose text does not parse has its
\* traditional analysis populated and its advanced analysis absent.
C10_ParseFailureAdvancedAbsent ==
  mode = "run" =>
    \A i \in 1..Len(cli.results) :
       cli.results[i].file = BrokenPath =>
         /\ ~IsNull(cli.results[i].traditionalAnalysis)
         /\ IsNull(cli.results[i].advanced)

\* the report of the file that does not parse, with the advanced analysis on
C10_Witness ==
  /\ mode = "run" /\ config.performance
  /\ \E i \in 1..Len(cli.results) : cli.results[i].file = BrokenPath

\* the report analyzeFile returns for one of the sample files analysed alone
ReportAlone(r, cfgs) ==
  \E f \in SampleFiles :
     /\ f.path = r.file
     /\ f.size = r.size
     /\ getTraditionalAnalysis(ContentOf(f)) = r.traditionalAnalysis
     /\ \E cfg \in cfgs : BuildAnalysis(f, cfg) = Some(r)

\* C11: every report of a run, whatever was analysed before it on the same
\* analyzer, is the report its file gets when it is analysed alone; so is the
\* report kept from the first run, whatever has been analysed since.
C11_ReportsIndependent ==
  mode = "run" =>
    /\ \A i \in 1..Len(cli.results) : ReportAlone(cli.results[i], {config})
    /\ ~IsNull(remembered) => ReportAlone(Get(remembered), {config})

\* a second run analysed another file first and then the file whose report was
\* kept from the first run, and returned the same report for it
C11_Witness ==
  /\ mode = "run" /\ cli.run = 2 /\ cli.entry = "pattern"
  /\ Len(cli.results) = 2
  /\ remembered = Some(cli.results[2])
  /\ cli.results[1].file # cli.results[2].file
  /\ analyzer.totalScore > cli.results[2].performanceScore

SeverityRank(sev) ==
  CASE sev = "high" -> 1
    [] sev = "medium" -> 2
    [] OTHER -> 3

\* C12: the findings of every file report are in severity order: high before
\* medium before low and info.
C12_FindingsBySeverity ==
  mode = "run" =>
    \A r \in Recorded :
      \A i, j \in 1..Len(r.suggestions) :
        i < j => SeverityRank(r.suggestions[i].severity) <= SeverityRank(r.suggestions[j].severity)

\* a report with findings of more than one severity
C12_Witness ==
  /\ mode = "run"
  /\ \E r \in Recorded :
       \E i, j \in 1..Len(r.suggestions) :
         SeverityRank(r.suggestions[i].severity) # SeverityRank(r.suggestions[j].severity)

RECURSIVE SumOfScores(_)
SumOfScores(reports) ==
  IF reports = <<>> THEN 0
  ELSE Head(reports).performanceScore + SumOfScores(Tail(reports))

\* a run has ended with a summary
Summarized == mode = "run" /\ pc = "done" /\ ~IsNull(cli.summary)

\* C13: the summary's average is the rounded mean of the scores of the reports
\* the run handed to the output, and the accumulated total is the sum of the
\* scores of the reports counted in totalFiles.
C13_AverageIsMeanOfReports ==
  Summarized =>
    /\ Get(cli.summary).totalFiles = Len(cli.results)
    /\ Get(cli.summary).averageScore = RoundDiv(SumOfScores(cli.results), Len(cli.results))
    /\ analyzer.totalScore = SumOfScores(analyzer.results)

\* a --file run has ended with a summary over its one report
C13_Witness ==
  /\ Summarized /\ cli.entry = "file"
  /\ Len(cli.results) = 1
  /\ cli.results[1].performanceScore > 0

RECURSIVE FindingsOf(_)
FindingsOf(reports) ==
  IF reports = <<>> THEN <<>>
  ELSE Head(reports).suggestions \o FindingsOf(Tail(reports))

HighOf(findings) == SelectSeq(findings, LAMBDA sg : sg.severity = "high")

\* C14: the top issues are the first 5, or fewer, high findings of the
\* findings of all file reports of the run, taken file by file in processing
\* order and within a file in the report's order.
C14_TopIssuesFirstFiveHigh ==
  Summarized =>
    LET high == HighOf(FindingsOf(cli.results))
        top == Get(cli.summary).topIssues
    IN  /\ Len(top) <= 5
        /\ \A i \in 1..Len(top) : top[i].severity = "high"
        /\ top = SubSeq(high, 1, Min(5, Len(high)))

\* a run whose reports hold a high finding has ended with a summary
C14_Witness ==
  /\ Summarized
  /\ HighOf(FindingsOf(cli.results)) # <<>>

CountOf(findings, sev) == Len(SelectSeq(findings, LAMBDA sg : sg.severity = sev))

\* C15: issues.high, issues.medium and issues.low are the numbers of findings
\* of that severity in the file reports counted in totalFiles.
C15_HistogramIsSum ==
  Summarized =>
    LET counted == FindingsOf(analyzer.results)
        issues == Get(cli.summary).issues
    IN  /\ Get(cli.summary).totalFiles = Len(analyzer.results)
        /\ issues.high = CountOf(counted, "high")
        /\ issues.medium = CountOf(counted, "medium")
        /\ issues.low = CountOf(counted, "low")

\* a run has ended with a summary whose histogram is not empty
C15_Witness ==
  /\ Summarized
  /\ Get(cli.summary).issues.high + Get(cli.summary).issues.medium
       + Get(cli.summary).issues.low > 0

(***************************************************************************)
(* More claims about the detectors (checked under SpecDetect)              *)
(***************************************************************************)
\* the detector with these visitors fails on the file: the parser throws, or
\* one of its visitors does
DetectorThrew(code, visitors) ==
  ~code.parses \/ traverse(code.tree, visitors).threw

WhatItFound(code, visitors) == traverse(code.tree, visitors).out

\* C16: a detector that fails on a file contributes an empty list for it, a
\* detector that does not fail contributes what it found whether or not
\* another one failed, and analyzeCode returns a result with a score.
C16_DetectorFailureIsolated ==
  (mode = "detect" /\ pc = "analyzed") =>
    /\ results.performanceScore = Some(calculatePerformanceScore(results))
    /\ results.performance.bottlenecks =
         IF DetectorThrew(file, BottleneckVisitors) THEN <<>>
         ELSE WhatItFound(file, BottleneckVisitors)
    /\ results.memoryLeaks =
         IF DetectorThrew(file, MemoryLeakVisitors) THEN <<>>
         ELSE WhatItFound(file, MemoryLeakVisitors)
    /\ results.bundleImpact.heavyImports =
         IF DetectorThrew(file, BundleVisitors) THEN <<>>
         ELSE InList(WhatItFound(file, BundleVisitors), "heavyImports")
    /\ results.bundleImpact.error = DetectorThrew(file, BundleVisitors)
    /\ file.mentionsReact =>
         /\ ~IsNull(results.performance.react)
         /\ Get(results.performance.react).issues = <<>>
         /\ Get(results.performance.react).error = DetectorThrew(file, ReactVisitors)

\* a file that parses was analysed; the bottleneck detector failed on it, the
\* leak detector and the bundle detector did not
C16_Witness ==
  /\ mode = "detect" /\ pc = "analyzed" /\ file.parses
  /\ DetectorThrew(file, BottleneckVisitors)
  /\ ~DetectorThrew(file, MemoryLeakVisitors)
  /\ ~DetectorThrew(file, BundleVisitors)
  /\ ~IsNull(results.performanceScore)

FindingsAt(findings, t, n) == SelectSeq(findings, LAMBDA f : f.type = t /\ f.line = n)

HasLoopBelow(tree, n) == \E m \in Descendants(tree, n) : tree[m].type \in LoopTypes

\* C18: every loop, for, while or do-while, with a loop somewhere below it gets
\* one nested-loop finding of severity high at its own line, and a loop with no
\* loop below it gets none.
C18_NestedLoopAnyOuterKind ==
  Analyzed =>
    \A n \in LoopNodes(file.tree) :
      LET found == FindingsAt(results.performance.bottlenecks, "nested-loop", n)
      IN  IF HasLoopBelow(file.tree, n)
          THEN Len(found) = 1 /\ found[1].severity = "high"
          ELSE found = <<>>

\* a while loop with a loop in its body has been analysed
C18_Witness ==
  /\ Analyzed
  /\ \E n \in LoopNodes(file.tree) :
       file.tree[n].type = "WhileStatement" /\ HasLoopBelow(file.tree, n)

\* the calls of the chain that ends in call n: n and, link by link, the call
\* that is the callee object of the one before, as long as that one is a
\* method call
OnChain(tree, n) ==
  {m \in {n} \cup Descendants(tree, n) :
     \A k \in ({m} \cup Ancestors(tree, m)) \cap ({n} \cup Descendants(tree, n)) :
        /\ k # n => tree[k].calleeObject
        /\ k # m => tree[k].callee = "MemberExpression"}

MethodCallsOnChain(tree, n) ==
  Cardinality({m \in OnChain(tree, n) : tree[m].callee = "MemberExpression"})

\* C19: getChainLength counts the method calls of the chain, and a chain of
\* array methods gets one array-chain finding of severity medium carrying that
\* length when the length is above 3, and none when it is 3 or less.
C19_LongChainReported ==
  Analyzed =>
    \A n \in 1..Len(file.tree) :
      (file.tree[n].type = "CallExpression" /\ ~file.tree[n].calleeObject) =>
        LET found == FindingsAt(results.performance.bottlenecks, "array-chain", n)
            length == getChainLength(file.tree, n)
        IN  /\ length = MethodCallsOnChain(file.tree, n)
            /\ IF isArrayMethodChain(file.tree, n) /\ length > 3
               THEN /\ Len(found) = 1
                    /\ found[1].severity = "medium"
                    /\ found[1].chainLength = length
               ELSE found = <<>>

\* a chain of four method calls has been analysed
C19_Witness ==
  /\ Analyzed
  /\ \E n \in 1..Len(file.tree) :
       /\ isArrayMethodChain(file.tree, n) /\ ~file.tree[n].calleeObject
       /\ MethodCallsOnChain(file.tree, n) = 4

HasLoopAbove(tree, n) == \E a \in Ancestors(tree, n) : tree[a].type \in LoopTypes

\* C20: a call of a method of the DOM list gets one dom-in-loop finding of
\* severity high exactly when one of its ancestors, however far up, is a loop.
C20_DomInLoopIffLoopAncestor ==
  Analyzed =>
    \A n \in 1..Len(file.tree) :
      (file.tree[n].type = "CallExpression" /\ isDOMManipulation(file.tree, n)) =>
        LET found == FindingsAt(results.performance.bottlenecks, "dom-in-loop", n)
        IN  IF HasLoopAbove(file.tree, n)
            THEN Len(found) = 1 /\ found[1].severity = "high"
            ELSE found = <<>>

\* a DOM call in a statement of a loop body has been analysed
C20_Witness ==
  /\ Analyzed
  /\ \E n \in 1..Len(file.tree) :
       /\ isDOMManipulation(file.tree, n)
       /\ HasLoopAbove(file.tree, n)
       /\ file.tree[file.tree[n].parent].type = "ExpressionStatement"

(***************************************************************************)
(* More claims about the runs of the tool (checked under Spec)             *)
(***************************************************************************)
\* analyzeFile reaches readFileSync for the file and the read succeeds
ReadSuccessfully(f) ==
  /\ ~shouldExclude(f.path) /\ f.exists
  /\ f.size <= MaxFileSize /\ ~isBinaryFile(extname(f.path))
  /\ extname(f.path) \in scriptExts
  /\ f.readable /\ ~f.binary

CannotBeReadOrBinary(f) == f.exists /\ (~f.readable \/ f.binary)

\* one turn of the loop of analyzePattern on file f does what C17 says
PatternTurnAsClaimed(f) ==
  /\ pc' = "analyze" /\ IsNull(cli'.exit)
  /\ CannotBeReadOrBinary(f) => cli'.results = cli.results
  /\ ReadSuccessfully(f) =>
       /\ Len(cli'.results) = Len(cli.results) + 1
       /\ SubSeq(cli'.results, 1, Len(cli.results)) = cli.results
       /\ cli'.results[Len(cli'.results)].file = f.path

\* C17: in a pattern run a file that cannot be read or is binary leaves the
\* results as they were and the loop goes on, a file that is read successfully
\* adds exactly one report, its own, at the end of the results, and the run
\* ends with a non-zero status only when it failed as a whole.
C17_PatternDropsAndKeeps ==
  /\ [][\A f \in SampleFiles : AnalyzePatternFile(f) => PatternTurnAsClaimed(f)]_vars
  /\ [](mode = "run" /\ cli.exit = Some(1) => cli.failed)

\* a pattern run holds the reports of two files and was handed, in between or
\* before, nothing that changed them
C17_Witness ==
  /\ mode = "run" /\ cli.entry = "pattern" /\ pc = "done"
  /\ Len(cli.results) = 2
  /\ cli.exit = Some(0)

\* a call by plain name to one of the three cleanup functions, below the block
\* of the scope of call n
CleanupCallInScope(tree, n) ==
  \E m \in Descendants(tree, ScopeBlock(tree, n)) :
     \E nm \in timerCleanups : tree[m] = NodeOf(PlainCall(nm), tree[m].parent)

PlainTimerCalls(tree) ==
  {n \in 1..Len(tree) : \E nm \in timerMethods : tree[n] = NodeOf(PlainCall(nm), tree[n].parent)}

\* C21: every call by plain name to setTimeout, setInterval or
\* requestAnimationFrame gets a timer finding of severity medium exactly when the
\* block of its scope holds no plain call to clearTimeout, clearInterval or
\* cancelAnimationFrame; one such call silences every timer call of the scope.
C21_TimerFindingIffNoCleanup ==
  Analyzed =>
    \A n \in PlainTimerCalls(file.tree) :
      LET found == FindingsAt(results.memoryLeaks, "timer", n)
      IN  IF CleanupCallInScope(file.tree, n)
          THEN found = <<>>
          ELSE Len(found) = 1 /\ found[1].severity = "medium"

\* C21 witness: a file with two timer calls in a scope that holds no cleanup
\* call has been analysed
C21_Witness ==
  /\ Analyzed
  /\ \E n, m \in PlainTimerCalls(file.tree) :
       n # m /\ ~CleanupCallInScope(file.tree, n) /\ ~CleanupCallInScope(file.tree, m)

\* the sources of the file's imports that isHeavyLibrary accepts
HeavySources(tree) ==
  {tree[n].source : n \in {m \in ImportNodes(tree) : isHeavyLibrary(tree[m].source)}}

\* C22: for every import source that isHeavyLibrary accepts, getLibrarySize
\* returns a size of that library and suggestAlternative an alternative of its
\* own, never the answers kept for a library the tables do not know.
C22_HeavyLibraryHasSizeAndAlternative ==
  Analyzed =>
    \A source \in HeavySources(file.tree) :
      /\ getLibrarySize(source) # "Unknown"
      /\ suggestAlternative(source) # "Consider lighter alternatives"

\* C22 witness: a file importing a library of the heavy list that has no entry
\* in the size table has been analysed
C22_Witness ==
  /\ Analyzed
  /\ \E source \in HeavySources(file.tree) :
       \A i \in 1..Len(sizes) : ~Includes(source, sizes[i][1])

\* C23: every report analyzeFile returns carries the traditional metrics,
\* whether or not the file parsed, whatever its extension, and also when the
\* file is empty.
C23_TraditionalAlwaysPopulated ==
  mode = "run" =>
    \A i \in 1..Len(cli.results) : ~IsNull(cli.results[i].traditionalAnalysis)

\* C23 witness: the run holds the report of the empty script file and the
\* report of a file that is no script
C23_Witness ==
  /\ mode = "run"
  /\ \E i, j \in 1..Len(cli.results) :
       /\ extname(cli.results[i].file) \in scriptExts
       /\ cli.results[i].traditionalAnalysis = getTraditionalAnalysis(EmptyText)
       /\ extname(cli.results[j].file) \notin scriptExts

(***************************************************************************)
(* detectDuplicatedCode over the text of a file                            *)
(***************************************************************************)
MaxLines == 3

\* the characters \s matches and trim() removes, among those of the samples
Whitespace == {" ", "\t"}

IsSpace(s, i) == SubSeq(s, i, i) \in Whitespace

\* content.split('\n')
RECURSIVE split(_)
split(content) ==
  LET breaks == {i \in 1..Len(content) : SubSeq(content, i, i) = "\n"}
  IN  IF breaks = {} THEN <<content>>
      ELSE LET b == CHOOSE i \in breaks : \A j \in breaks : i <= j
           IN  <<SubSeq(content, 1, b - 1)>> \o split(SubSeq(content, b + 1, Len(content)))

\* line.trim()
trim(line) ==
  LET solid == {i \in 1..Len(line) : ~IsSpace(line, i)}
  IN  IF solid = {} THEN ""
      ELSE SubSeq(line, CHOOSE i \in solid : \A j \in solid : i <= j,
                        CHOOSE i \in solid : \A j \in solid : j <= i)

\* s.replace(/\s+/g, ' '), from character i on
RECURSIVE CollapseFrom(_, _)
CollapseFrom(s, i) ==
  IF i > Len(s) THEN ""
  ELSE IF ~IsSpace(s, i) THEN SubSeq(s, i, i) \o CollapseFrom(s, i + 1)
  ELSE IF i > 1 /\ IsSpace(s, i - 1) THEN CollapseFrom(s, i + 1)
  ELSE " " \o CollapseFrom(s, i + 1)

\* const normalized = line.trim().replace(/\s+/g, ' ')
normalized(line) == CollapseFrom(trim(line), 1)

\* content.split('\n').filter(line => line.trim().length > 10)
FilteredLines(content) == SelectSeq(split(content), LAMBDA line : Len(trim(line)) > 10)

\* lines.forEach: a line whose normalized text is in `seen` goes to duplicates,
\* any other is put in `seen`; the number of duplicates after line i and later
RECURSIVE ForEachLine(_, _, _, _)
ForEachLine(lines, i, seen, duplicates) ==
  IF i > Len(lines) THEN duplicates
  ELSE IF normalized(lines[i]) \in seen
       THEN ForEachLine(lines, i + 1, seen, duplicates + 1)
       ELSE ForEachLine(lines, i + 1, seen \cup {normalized(lines[i])}, duplicates)

\* mutant: a text that comes back several times is counted once
detectDuplicatedCodeOncePerText(content) ==
  LET lines == FilteredLines(content)
  IN  Cardinality({normalized(lines[i]) : i \in
                     {k \in 1..Len(lines) :
                        \E j \in 1..(k - 1) : normalized(lines[j]) = normalized(lines[k])}})

detectDuplicatedCode(content) == ForEachLine(FilteredLines(content), 1, {}, 0)

\* lines on both sides of the length limit, before and after trimming, and
\* lines that differ in their white space only
SampleLines ==
  {"return total;", "  return   total;", "return\ttotal; ", "let ab = 0;", "let i = 0;",
   "   count++;   ", ""}

InitText ==
  /\ mode = "text"
  /\ file \in {[content |-> line] : line \in SampleLines}
  /\ analysis = NoAnalysis
  /\ results = EmptyResults
  /\ IdleRun
  /\ pc = "input"

\* the text gets one more line
WriteLine(line) ==
  /\ mode = "text"
  /\ pc = "input"
  /\ Len(split(file.content)) < MaxLines
  /\ file' = [content |-> file.content \o "\n" \o line]
  /\ UNCHANGED <<mode, results, analysis, pc, runVars>>

\* getTraditionalAnalysis: duplicatedCode: this.detectDuplicatedCode(content)
DetectDuplicatedCode ==
  /\ mode = "text"
  /\ pc = "input"
  /\ analysis' = [analysis EXCEPT !.traditionalAnalysis =
                    Some([duplicatedCode |-> detectDuplicatedCode(file.content)])]
  /\ pc' = "counted"
  /\ UNCHANGED <<mode, results, file, runVars>>

NextText ==
  \/ \E line \in SampleLines : WriteLine(line)
  \/ DetectDuplicatedCode

SpecText == InitText /\ [][NextText]_vars

Counted == mode = "text" /\ pc = "counted"

\* the lines of the text, by position, whose trimmed length exceeds 10
Qualifying(content) ==
  {i \in 1..Len(split(content)) : Len(trim(split(content)[i])) > 10}

NormalizedAt(content, i) == normalized(split(content)[i])

\* C24: the duplicate count is the number of lines longer than 10 characters
\* after trimming that equal an earlier such line once trimmed and with their
\* white-space runs collapsed: the number of such lines minus the number of
\* distinct normalized texts among them.
C24_DuplicatesAreRepeatedLines ==
  Counted =>
    LET content == file.content
        Q == Qualifying(content)
        count == Get(analysis.traditionalAnalysis).duplicatedCode
    IN  /\ count = Cardinality({i \in Q : \E j \in Q :
                      j < i /\ NormalizedAt(content, j) = NormalizedAt(content, i)})
        /\ count = Cardinality(Q) - Cardinality({NormalizedAt(content, i) : i \in Q})

\* C24 witness: a text whose three lines differ in white space only has been
\* counted, and two of them are duplicates
C24_Witness ==
  /\ Counted
  /\ Cardinality({split(file.content)[i] : i \in Qualifying(file.content)}) = 3
  /\ Get(analysis.traditionalAnalysis).duplicatedCode = 2

\* the accumulators of the analyzer: the total score and the severity histogram
Accumulators(self) == <<self.totalScore, self.issueCount>>

\* the accumulators after they took in the reports, each once
AccumulatedOnce(reports) ==
  <<SumOfScores(reports),
    [high |-> CountOf(FindingsOf(reports), "high"),
     medium |-> CountOf(FindingsOf(reports), "medium"),
     low |-> CountOf(FindingsOf(reports), "low")]>>

\* the report is complete: its findings and its score are those its fields give
FullyBuilt(r) ==
  /\ r.suggestions = generateComprehensiveSuggestions(r)
  /\ r.performanceScore = calculateOverallScore(r)

\* the step adds to the accumulators what one report, complete and returned in
\* this very step, contributes, before any summary of the run
AccumulatesFinishedReport ==
  /\ pc = "analyze"
  /\ IsNull(cli.summary)
  /\ Len(cli'.results) = Len(cli.results) + 1
  /\ SubSeq(cli'.results, 1, Len(cli.results)) = cli.results
  /\ FullyBuilt(cli'.results[Len(cli'.results)])
  /\ Accumulators(analyzer') = AccumulatedOnce(cli'.results)

\* C25: the accumulators change only by taking in a report that is fully built,
\* with its final findings and score; every report of the run is in them
\* exactly once; and the summary is computed only when the analysis of the run
\* is over, from accumulators that hold all its reports.
C25_AccumulatedAfterBuilt ==
  /\ [][(mode = "run" /\ Accumulators(analyzer') # Accumulators(analyzer)
           /\ analyzer' # NewAnalyzer) => AccumulatesFinishedReport]_vars
  /\ [](mode = "run" => Accumulators(analyzer) = AccumulatedOnce(cli.results))
  /\ [][(mode = "run" /\ cli'.summary # cli.summary /\ ~IsNull(cli'.summary)) =>
          /\ pc = "collected"
          /\ analyzer' = analyzer
          /\ cli'.results = cli.results]_vars

\* C25 witness: a run over two files has ended with a summary, and the
\* accumulators hold the scores and the findings of both reports
C25_Witness ==
  /\ Summarized
  /\ Len(cli.results) = 2
  /\ analyzer.totalScore = SumOfScores(cli.results)
  /\ analyzer.issueCount.high > 0
  /\ analyzer.issueCount.low > 0

\* the file's dialect is a markup or typed-script one, by its extension
MarkupDialect(ext) == ext \in {".jsx", ".tsx", ".ts"}

\* C26: analyzeCode runs analyzeReactComponent for a file exactly when the
\* file's dialect is markup or typed script, and never for a plain-script file.
C26_ComponentDetectorByDialect ==
  (mode = "detect" /\ pc = "analyzed") =>
    (~IsNull(results.performance.react) <=> MarkupDialect(file.ext))

\* C26 witness: a plain-script file whose text contains the word React has
\* been analysed
C26_Witness ==
  /\ Analyzed
  /\ file.ext = ".js"
  /\ file.mentionsReact
  /\ \E n \in 1..Len(file.tree) : isHook(file.tree[n])

\* the report with another size, other traditional metrics and other results
\* of the component-pattern detector
WithTheRest(r, size, trad, react) ==
  [r EXCEPT !.size = size, !.traditionalAnalysis = trad,
            !.advanced = Some([Get(r.advanced) EXCEPT !.performance.react = react])]

SampleReact ==
  {Null, Some([issues |-> <<"inline-function">>, recommendations |-> <<"memo">>,
               error |-> FALSE])}

\* C27: the score of a report that has an advanced analysis is the advanced
\* performance score, whatever the file's size, its traditional metrics and
\* the component-pattern results are, and also when they add findings of
\* severity high.
C27_AdvancedScoreAlone ==
  mode = "run" =>
    \A r \in Recorded :
      ~IsNull(r.advanced) =>
        /\ r.performanceScore = Get(Get(r.advanced).performanceScore)
        /\ \A size \in SampleSizes, trad \in SampleTraditional, react \in SampleReact :
             calculateOverallScore(WithTheRest(r, size, trad, react)) = r.performanceScore

\* C27 witness: the report of a file above the size and complexity limits has
\* an advanced analysis, findings of severity high and the advanced score
C27_Witness ==
  /\ mode = "run"
  /\ \E i \in 1..Len(cli.results) :
       LET r == cli.results[i]
       IN  /\ ~IsNull(r.advanced)
           /\ r.size > ThresholdFileSize
           /\ Get(r.traditionalAnalysis).complexity > ComplexityLimit
           /\ CountOf(r.suggestions, "high") >= 2
           /\ r.performanceScore = Get(Get(r.advanced).performanceScore)

(***************************************************************************)
(* The suggestions of a file report: generateSuggestions of                *)
(* PerformanceAnalyzer (bin/perf-wizard-enhanced.js) and                   *)
(* generateComprehensiveSuggestions of UltimatePerformanceAnalyzer, each   *)
(* applied to analyses drawn around the thresholds of their rules.         *)
(***************************************************************************)
ThresholdLoops == 10
ThresholdLines == 1000

\* an entry of generateSuggestions: a type and a message, and nothing else
Advice(t, message) == [type |-> t, message |-> message]

\* mutant: the size rule alone, and the list returned as it left it
generateSuggestionsAsCollected(an, filePath) ==
  IF an.size > ThresholdFileSize THEN <<Advice("warning", "File size exceeds threshold")>>
  ELSE <<>>

\* PerformanceAnalyzer.generateSuggestions(analysis, filePath); its thresholds
\* fileSize and functions have the values of those of the later analyzer
generateSuggestions(an, filePath) ==
  LET ext == extname(filePath)
      details == Get(an.details)
      bySize == IF an.size > ThresholdFileSize
                THEN <<Advice("warning", "File size exceeds threshold")>> ELSE <<>>
      byDetails ==
        IF ext \in {".js", ".ts"}
        THEN (IF details.functions > ThresholdFunctions
                THEN <<Advice("warning", "High function count")>> ELSE <<>>)
          \o (IF details.loops > ThresholdLoops
                THEN <<Advice("info", "Multiple loops detected")>> ELSE <<>>)
          \o (IF details.lines > ThresholdLines
                THEN <<Advice("warning", "Large file")>> ELSE <<>>)
          \o (IF details.complexity > ComplexityLimit
                THEN <<Advice("warning", "High cyclomatic complexity")>> ELSE <<>>)
        ELSE <<>>
      suggestions == bySize \o byDetails
  IN  IF suggestions = <<>>
      THEN <<Advice("success", "Code structure looks optimized")>>
      ELSE suggestions

SampleDetails ==
  {[lines |-> ln, chars |-> 1200, functions |-> fn, loops |-> lp, imports |-> 0,
    complexity |-> cx, todos |-> td, duplicatedCode |-> dup] :
      ln \in {ThresholdLines, ThresholdLines + 1},
      fn \in {ThresholdFunctions, ThresholdFunctions + 1},
      lp \in {ThresholdLoops, ThresholdLoops + 1},
      cx \in {ComplexityLimit, ComplexityLimit + 1},
      td \in {0, 1},
      dup \in {DuplicateLimit, DuplicateLimit + 1}}

\* no advanced analysis, one that found nothing, one with a bottleneck and a
\* component-pattern recommendation
SampleAdvanced ==
  {Null,
   Some([EmptyResults EXCEPT !.performanceScore = Some(100)]),
   Some([EmptyResults EXCEPT
           !.performance = [react |-> Some([issues |-> <<>>,
                                            recommendations |-> <<"memo">>,
                                            error |-> FALSE]),
                            bottlenecks |-> <<Finding("nested-loop", "high", 2)>>],
           !.performanceScore = Some(85)])}

SamplePaths == {"src/app.js", "src/view.jsx", "styles/site.css"}

\* the analysis object of either analyzeFile before its suggestions: details
\* and traditionalAnalysis are null unless the file is a script that was read
SampleAnalyses(filePath) ==
  IF extname(filePath) \in scriptExts
  THEN {[size |-> sz, details |-> Some(d), traditionalAnalysis |-> Some(d),
         advanced |-> adv, suggestions |-> <<>>] :
           sz \in SampleSizes, d \in SampleDetails, adv \in SampleAdvanced}
  ELSE {[size |-> sz, details |-> Null, traditionalAnalysis |-> Null,
         advanced |-> Null, suggestions |-> <<>>] : sz \in SampleSizes}

InitSuggest ==
  /\ mode = "suggest"
  /\ \E filePath \in SamplePaths :
       /\ file = [path |-> filePath]
       /\ analysis \in SampleAnalyses(filePath)
  /\ results = EmptyResults
  /\ IdleRun
  /\ pc = "input"

\* PerformanceAnalyzer.analyzeFile:
\*   analysis.suggestions = this.generateSuggestions(analysis, filePath)
GenerateSuggestions ==
  /\ mode = "suggest"
  /\ pc = "input"
  /\ analysis' = [analysis EXCEPT !.suggestions = generateSuggestions(analysis, file.path)]
  /\ pc' = "suggested"
  /\ UNCHANGED <<mode, results, file, runVars>>

\* UltimatePerformanceAnalyzer.analyzeFile:
\*   analysis.suggestions = this.generateComprehensiveSuggestions(analysis)
GenerateComprehensiveSuggestions ==
  /\ mode = "suggest"
  /\ pc = "input"
  /\ analysis' = [analysis EXCEPT !.suggestions = generateComprehensiveSuggestions(analysis)]
  /\ pc' = "suggested comprehensively"
  /\ UNCHANGED <<mode, results, file, runVars>>

NextSuggest ==
  \/ GenerateSuggestions
  \/ GenerateComprehensiveSuggestions

SpecSuggest == InitSuggest /\ [][NextSuggest]_vars

Suggested == mode = "suggest" /\ pc \in {"suggested", "suggested comprehensively"}

\* suggestion.severity: undefined where the entry has no such property
SeverityOf(suggestion) ==
  IF "severity" \in DOMAIN suggestion THEN Some(suggestion.severity) ELSE Null

Placeholders(list) == {i \in 1..Len(list) : list[i].type = "success"}

\* the list is not empty, and it holds the placeholder exactly when it holds
\* no other entry, the placeholder then being alone
PlaceholderIffNothingElse(list) ==
  /\ Len(list) >= 1
  /\ (Placeholders(list) # {}) <=> (\A i \in 1..Len(list) : i \in Placeholders(list))
  /\ Placeholders(list) # {} => Len(list) = 1

\* C28 as stated: the findings list is never empty and the placeholder, of type
\* success and severity info, is there exactly when nothing else is, alone,
\* for generateSuggestions and generateComprehensiveSuggestions alike.
C28_PlaceholderSuccessInfo ==
  Suggested =>
    /\ PlaceholderIffNothingElse(analysis.suggestions)
    /\ \A i \in Placeholders(analysis.suggestions) :
         SeverityOf(analysis.suggestions[i]) = Some("info")

\* C28 amended: the findings list is never empty and the placeholder, of type
\* success, is there exactly when nothing else is, alone, for both functions;
\* its severity is info in generateComprehensiveSuggestions, while in
\* generateSuggestions no entry, the placeholder included, has a severity.
C28_PlaceholderIffNoFinding ==
  Suggested =>
    /\ PlaceholderIffNothingElse(analysis.suggestions)
    /\ \A i \in Placeholders(analysis.suggestions) :
         SeverityOf(analysis.suggestions[i]) =
           IF pc = "suggested" THEN Null ELSE Some("info")
    /\ pc = "suggested" =>
         \A i \in 1..Len(analysis.suggestions) : IsNull(SeverityOf(analysis.suggestions[i]))

\* C28 witness: generateSuggestions has returned the placeholder alone for a
\* file none of its rules apply to
C28_Witness ==
  /\ mode = "suggest" /\ pc = "suggested"
  /\ analysis.suggestions = <<Advice("success", "Code structure looks optimized")>>
  /\ extname(file.path) = ".jsx"
  /\ Get(analysis.details).complexity > ComplexityLimit

\* C29: the totalFiles of a summary is the number of file reports the run hands
\* to the output, whatever the entry point; a run that outputs a report never
\* has totalFiles = 0.
C29_TotalFilesIsReportCount ==
  Summarized =>
    /\ Get(cli.summary).totalFiles = Len(cli.results)
    /\ Len(cli.results) >= 1 => Get(cli.summary).totalFiles # 0

\* C29 witness: a run started with --file has ended with a summary and one
\* report
C29_Witness ==
  /\ Summarized
  /\ cli.entry = "file"
  /\ Len(cli.results) = 1

\* what the rule costs when the value is above the limit, and nothing otherwise
Charge(value, limit, cost) == IF value > limit THEN cost ELSE 0

\* C30: without an advanced analysis the score is 100 less 10 for a size above
\* thresholds.fileSize, 20 for a complexity above 15, 10 for a function count
\* above thresholds.functions and 15 for a duplicate count above 5; a value
\* equal to its threshold costs nothing, and the score is never below 45.
C30_FallbackScore ==
  (mode = "fallback" /\ OverallScored) =>
    LET trad == analysis.traditionalAnalysis
        score == Get(analysis.performanceScore)
        metricsCost ==
          IF IsNull(trad) THEN 0
          ELSE Charge(Get(trad).complexity, 15, 20)
             + Charge(Get(trad).functions, ThresholdFunctions, 10)
             + Charge(Get(trad).duplicatedCode, 5, 15)
    IN  /\ IsNull(analysis.advanced)
        /\ score = 100 - Charge(analysis.size, ThresholdFileSize, 10) - metricsCost
        /\ score >= 45

\* C30 witness: a file above every threshold has been scored 45 without an
\* advanced analysis
C30_Witness ==
  /\ mode = "fallback" /\ OverallScored
  /\ analysis.size > ThresholdFileSize
  /\ ~IsNull(analysis.traditionalAnalysis)
  /\ Get(analysis.traditionalAnalysis).complexity > 15
  /\ Get(analysis.traditionalAnalysis).functions > ThresholdFunctions
  /\ Get(analysis.traditionalAnalysis).duplicatedCode > 5
  /\ analysis.performanceScore = Some(45)
====
